---- MODULE Spec2Model ----
(***************************************************************************)
(* Model of notebooks/utils.py: the lookup helpers actor_parts, get_target *)
(* and get_emissions over the openclimate client, and the target           *)
(* arithmetic ipcc_range, linear_equation and scaled_emissions.            *)
(*                                                                         *)
(* Python's float is IEEE-754 binary64.  The arithmetic below is computed  *)
(* as the interpreter computes it: every operation is the exact result     *)
(* rounded to 53 significant bits, round-half-to-even.  Exact values are   *)
(* dyadic rationals (-1)^neg * m * 2^e whose m is a natural number of      *)
(* arbitrary size, kept as a little-endian sequence of limbs.  The         *)
(* exponent range of binary64 (overflow, subnormals) is not modelled: the  *)
(* magnitudes of the inputs drawn here stay far inside it.                 *)
(***************************************************************************)
EXTENDS Integers, Sequences, FiniteSets, TLC

----------------------------------------------------------------------------
(* Natural numbers of arbitrary size.                                      *)

LimbBits == 15
Base == 2^LimbBits

RECURSIVE BNorm(_)
BNorm(a) ==
    IF a = <<>> THEN <<>>
    ELSE IF a[Len(a)] = 0 THEN BNorm(SubSeq(a, 1, Len(a) - 1))
    ELSE a

RECURSIVE BFromNat(_)
BFromNat(n) ==
    IF n = 0 THEN <<>> ELSE <<n % Base>> \o BFromNat(n \div Base)

RECURSIVE BAddC(_, _, _)
BAddC(a, b, c) ==
    IF a = <<>> /\ b = <<>> THEN (IF c = 0 THEN <<>> ELSE <<c>>)
    ELSE LET x == (IF a = <<>> THEN 0 ELSE Head(a))
                  + (IF b = <<>> THEN 0 ELSE Head(b)) + c
         IN  <<x % Base>> \o BAddC(IF a = <<>> THEN <<>> ELSE Tail(a),
                                   IF b = <<>> THEN <<>> ELSE Tail(b),
                                   x \div Base)

BAdd(a, b) == BAddC(a, b, 0)

\* a - b for a >= b
RECURSIVE BSubB(_, _, _)
BSubB(a, b, borrow) ==
    IF a = <<>> THEN <<>>
    ELSE LET x == Head(a) - (IF b = <<>> THEN 0 ELSE Head(b)) - borrow
         IN  <<x % Base>> \o BSubB(Tail(a),
                                   IF b = <<>> THEN <<>> ELSE Tail(b),
                                   IF x < 0 THEN 1 ELSE 0)

BSub(a, b) == BNorm(BSubB(a, b, 0))

\* -1, 0, 1 as a < b, a = b, a > b; both without leading zero limbs
RECURSIVE BCmp(_, _)
BCmp(a, b) ==
    IF Len(a) # Len(b) THEN (IF Len(a) < Len(b) THEN -1 ELSE 1)
    ELSE IF a = <<>> THEN 0
    ELSE IF a[Len(a)] # b[Len(b)] THEN (IF a[Len(a)] < b[Len(b)] THEN -1 ELSE 1)
    ELSE BCmp(SubSeq(a, 1, Len(a) - 1), SubSeq(b, 1, Len(b) - 1))

\* a * k for 0 <= k < Base
RECURSIVE BMulSmallC(_, _, _)
BMulSmallC(a, k, c) ==
    IF a = <<>> THEN BFromNat(c)
    ELSE LET x == Head(a) * k + c
         IN  <<x % Base>> \o BMulSmallC(Tail(a), k, x \div Base)

BMulSmall(a, k) == BNorm(BMulSmallC(a, k, 0))

RECURSIVE BMul(_, _)
BMul(a, b) ==
    IF a = <<>> \/ b = <<>> THEN <<>>
    ELSE BNorm(BAdd(BMulSmall(a, Head(b)), <<0>> \o BMul(a, Tail(b))))

\* quotient and remainder of a by k, 0 < k < Base
RECURSIVE BDivSmallR(_, _, _)
BDivSmallR(a, k, r) ==
    IF a = <<>> THEN [q |-> <<>>, r |-> r]
    ELSE LET x == r * Base + a[Len(a)]
             rest == BDivSmallR(SubSeq(a, 1, Len(a) - 1), k, x % k)
         IN  [q |-> Append(rest.q, x \div k), r |-> rest.r]

BDivNorm(d) == [q |-> BNorm(d.q), r |-> d.r]

BDivSmall(a, k) == BDivNorm(BDivSmallR(a, k, 0))

RECURSIVE IntBitLen(_)
IntBitLen(n) == IF n = 0 THEN 0 ELSE 1 + IntBitLen(n \div 2)

BBitLen(a) ==
    IF a = <<>> THEN 0 ELSE LimbBits * (Len(a) - 1) + IntBitLen(a[Len(a)])

BShl(a, n) ==
    IF a = <<>> THEN <<>>
    ELSE [i \in 1..(n \div LimbBits) |-> 0] \o BMulSmall(a, 2^(n % LimbBits))

BShrLimbs(a, k, d) ==
    [q |-> d.q, sticky |-> d.r # 0 \/ \E i \in 1..k : a[i] # 0]

\* a shifted right by n bits, and whether a nonzero bit was shifted out
BShr(a, n) ==
    IF n \div LimbBits >= Len(a) THEN [q |-> <<>>, sticky |-> a # <<>>]
    ELSE BShrLimbs(a, n \div LimbBits,
                   BDivSmall(SubSeq(a, n \div LimbBits + 1, Len(a)), 2^(n % LimbBits)))

BOdd(a) == a # <<>> /\ Head(a) % 2 = 1

RECURSIVE IntTrailingZeros(_)
IntTrailingZeros(n) == IF n % 2 = 1 THEN 0 ELSE 1 + IntTrailingZeros(n \div 2)

RECURSIVE BTrailingZeros(_)
BTrailingZeros(a) ==
    IF Head(a) = 0 THEN LimbBits + BTrailingZeros(Tail(a))
    ELSE IntTrailingZeros(Head(a))

----------------------------------------------------------------------------
(* Exact dyadic rationals and binary64 values.  cls is "fin", "inf" or     *)
(* "nan"; a finite value is canonical: m odd, or zero as DZero.            *)

DZero == [cls |-> "fin", neg |-> FALSE, m |-> <<>>, e |-> 0]
Inf(neg) == [cls |-> "inf", neg |-> neg, m |-> <<>>, e |-> 0]
NaN == [cls |-> "nan", neg |-> FALSE, m |-> <<>>, e |-> 0]

CanonShift(neg, m, e, tz) ==
    [cls |-> "fin", neg |-> neg, m |-> BShr(m, tz).q, e |-> e + tz]

Canon(neg, m, e) ==
    IF m = <<>> THEN DZero ELSE CanonShift(neg, m, e, BTrailingZeros(m))

\* int -> float (exact for |n| < 2^53)
FromInt(n) == Canon(n < 0, BFromNat(IF n < 0 THEN -n ELSE n), 0)

DNeg(x) == IF x.m = <<>> THEN x ELSE [x EXCEPT !.neg = ~x.neg]
DAbs(x) == [x EXCEPT !.neg = FALSE]

\* (-1)^xneg * X * 2^e + (-1)^yneg * Y * 2^e
DAddAligned(xneg, X, yneg, Y, e) ==
    Canon(IF xneg = yneg \/ BCmp(X, Y) >= 0 THEN xneg ELSE yneg,
          IF xneg = yneg THEN BAdd(X, Y)
          ELSE IF BCmp(X, Y) >= 0 THEN BSub(X, Y)
          ELSE BSub(Y, X),
          e)

MinInt(a, b) == IF a < b THEN a ELSE b

DAdd(x, y) ==
    DAddAligned(x.neg, BShl(x.m, x.e - MinInt(x.e, y.e)),
                y.neg, BShl(y.m, y.e - MinInt(x.e, y.e)),
                MinInt(x.e, y.e))

DSub(x, y) == DAdd(x, DNeg(y))

DMul(x, y) == Canon(x.neg # y.neg, BMul(x.m, y.m), x.e + y.e)

\* x * 2^k
DScale(x, k) == IF x.m = <<>> THEN x ELSE [x EXCEPT !.e = x.e + k]

\* x <= y
DLe(x, y) == ~DSub(y, x).neg

MantissaBits == 53

\* (-1)^neg * m * 2^e, plus a positive fraction of its last bit when sticky,
\* rounded to MantissaBits significant bits, ties to even
RoundUp(neg, Q, half, sticky, e) ==
    Canon(neg, IF half /\ (sticky \/ BOdd(Q)) THEN BAdd(Q, <<1>>) ELSE Q, e)

\* sh: the value shifted right to MantissaBits + 1 bits
RoundShifted(neg, sh, e, sticky) ==
    RoundUp(neg, BShr(sh.q, 1).q, BOdd(sh.q), sh.sticky \/ sticky, e)

RoundNearestEven(neg, m, e, sticky) ==
    IF BBitLen(m) <= MantissaBits THEN Canon(neg, m, e)
    ELSE RoundShifted(neg, BShr(m, BBitLen(m) - MantissaBits - 1),
                      e + BBitLen(m) - MantissaBits, sticky)

RoundD(x) == RoundNearestEven(x.neg, x.m, x.e, FALSE)

FAdd(x, y) ==
    IF x.cls = "nan" \/ y.cls = "nan" THEN NaN
    ELSE IF x.cls = "inf" /\ y.cls = "inf" THEN (IF x.neg = y.neg THEN x ELSE NaN)
    ELSE IF x.cls = "inf" THEN x
    ELSE IF y.cls = "inf" THEN y
    ELSE RoundD(DAdd(x, y))

FNeg(x) == IF x.cls = "nan" THEN x
           ELSE IF x.cls = "inf" THEN Inf(~x.neg)
           ELSE DNeg(x)

FSub(x, y) == FAdd(x, FNeg(y))

FMul(x, y) ==
    IF x.cls = "nan" \/ y.cls = "nan" THEN NaN
    ELSE IF x.cls = "inf" \/ y.cls = "inf"
         THEN (IF x = DZero \/ y = DZero THEN NaN ELSE Inf(x.neg # y.neg))
    ELSE RoundD(DMul(x, y))

GuardLimbs == 5

\* x / y for finite x and finite nonzero y whose odd part is below Base
RoundQuotient(neg, d, e) == RoundNearestEven(neg, d.q, e, d.r # 0)

FDivFinite(x, y) ==
    IF x.m = <<>> THEN DZero
    ELSE RoundQuotient(x.neg # y.neg,
                       BDivSmall([i \in 1..GuardLimbs |-> 0] \o x.m, Head(y.m)),
                       x.e - GuardLimbs * LimbBits - y.e)

\* x / y with y = 0 under numpy's scalar arithmetic (IEEE, a RuntimeWarning only)
DivByZeroIEEE(x) ==
    IF x.cls = "nan" \/ x = DZero THEN NaN ELSE Inf(x.neg)

\* x / y, y # 0
TrueDiv(x, y) ==
    IF x.cls = "nan" THEN NaN
    ELSE IF x.cls = "inf" THEN Inf(x.neg # y.neg)
    ELSE FDivFinite(x, y)

\* Python's == on two floats
FEq(x, y) == x.cls # "nan" /\ y.cls # "nan" /\ x = y

----------------------------------------------------------------------------
(* Values a call ends with.                                                *)

Pending == [kind |-> "pending"]
None == [kind |-> "None"]
Raise(exc) == [kind |-> "raise", exc |-> exc]
Table(rows) == [kind |-> "table", rows |-> rows]
Dict(d) == [kind |-> "dict", value |-> d]
Float(x) == [kind |-> "float", value |-> x]

----------------------------------------------------------------------------
(* Target arithmetic.                                                      *)

(* Each intermediate of a function body is an operator parameter here, so   *)
(* that it is computed once where the source assigns it once.              *)

\* target_decimal = target_percent / 100
\* target_emissions = baseline_emissions * (1 - target_decimal)
target_emissions_of(baseline_emissions, target_percent) ==
    FMul(FromInt(baseline_emissions),
         FSub(FromInt(1), TrueDiv(FromInt(target_percent), FromInt(100))))

\* slope = d_emission / d_year, for d_year # 0 or numpy
slope_of(d_emission, d_year) ==
    IF d_year = 0 THEN DivByZeroIEEE(d_emission)
    ELSE TrueDiv(d_emission, FromInt(d_year))

intercept_of_added(baseline_emissions, slope, baseline_year) ==
    FAdd(FromInt(baseline_emissions), FMul(slope, FromInt(baseline_year)))

\* intercept = baseline_emissions - slope * baseline_year
intercept_of(baseline_emissions, slope, baseline_year) ==
    FSub(FromInt(baseline_emissions), FMul(slope, FromInt(baseline_year)))

linear_equation_dict(slope, intercept, target_emissions) ==
    Dict([slope |-> slope, intercept |-> intercept,
          target_emissions |-> target_emissions,
          equation |-> [slope |-> slope, intercept |-> intercept]])

linear_equation_line(baseline_year, baseline_emissions, target_emissions, slope) ==
    linear_equation_dict(slope,
                         intercept_of(baseline_emissions, slope, baseline_year),
                         target_emissions)

linear_equation_slope(baseline_year, baseline_emissions, target_year, target_emissions) ==
    linear_equation_line(baseline_year, baseline_emissions, target_emissions,
        slope_of(FSub(target_emissions, FromInt(baseline_emissions)),
                 target_year - baseline_year))

\* numpy: the year arguments are numpy scalars (cells of a table) rather than
\* built-in numbers; built-in division by zero raises, numpy's does not
linear_equation(baseline_year, baseline_emissions, target_percent, target_year, numpy) ==
    IF target_year - baseline_year = 0 /\ ~numpy THEN Raise("ZeroDivisionError")
    ELSE linear_equation_slope(baseline_year, baseline_emissions, target_year,
                               target_emissions_of(baseline_emissions, target_percent))

equation_slope_only(closure, YEAR) == FMul(closure.slope, FromInt(YEAR))

\* the closure  lambda YEAR: (slope * YEAR) + intercept
equation(closure, YEAR) ==
    FAdd(FMul(closure.slope, FromInt(YEAR)), closure.intercept)

\* le['equation'](scale_year); an exception of linear_equation passes through
scaled_emissions_at(le, scale_year) ==
    IF le.kind = "raise" THEN le
    ELSE Float(equation(le.value.equation, scale_year))

scaled_emissions(baseline_year, baseline_emissions, target_percent, target_year, scale_year, numpy) ==
    scaled_emissions_at(linear_equation(baseline_year, baseline_emissions,
                                        target_percent, target_year, numpy),
                        scale_year)

item_first(series) ==
    IF Len(series) >= 1 THEN [ok |-> TRUE, value |-> series[1]]
    ELSE [ok |-> FALSE, exc |-> "ValueError"]

\* Series.item(): the only element, ValueError unless there is exactly one
item(series) ==
    IF Len(series) = 1 THEN [ok |-> TRUE, value |-> series[1]]
    ELSE [ok |-> FALSE, exc |-> "ValueError"]

HasColumn(df, col) == col \in df.columns

\* df.loc[lambda x: x[col] == v]
FilterEq(rows, col, v) == SelectSeq(rows, LAMBDA r : r[col] = v)

Column(rows, col) == [i \in 1..Len(rows) |-> rows[i][col]]

NoActor == "<None>"

ipcc_target_share(baseline_emissions, target_value) ==
    FMul(FromInt(baseline_emissions), TrueDiv(FromInt(target_value), FromInt(100)))

\* baseline_emissions * (1 - target_value/100)
ipcc_target(baseline_emissions, target_value) ==
    FMul(FromInt(baseline_emissions),
         FSub(FromInt(1), TrueDiv(FromInt(target_value), FromInt(100))))

ipcc_range_dict(cell, baseline_year, target_value15, target_value20) ==
    IF ~cell.ok THEN Raise(cell.exc)
    ELSE Dict("baseline_year" :> baseline_year
              @@ "target_value_1.5C" :> target_value15
              @@ "target_emissions_1.5C" :> ipcc_target(cell.value, target_value15)
              @@ "target_value_2.0C" :> target_value20
              @@ "target_emissions_2.0C" :> ipcc_target(cell.value, target_value20))

ipcc_range(df, actor_id, baseline_year, target_value15, target_value20) ==
    IF actor_id # NoActor /\ ~HasColumn(df, "actor_id") THEN Raise("KeyError")
    ELSE ipcc_range_dict(
             item(Column(FilterEq(IF actor_id = NoActor THEN df.rows
                                  ELSE FilterEq(df.rows, "actor_id", actor_id),
                                  "year", baseline_year),
                         "total_emissions")),
             baseline_year, target_value15, target_value20)

----------------------------------------------------------------------------
(* Lookup helpers.  A client query ends with a table or with one of the    *)
(* exceptions the helpers distinguish.                                     *)

ClientErrors == {"AttributeError", "KeyError", "ValueError"}

\* df.loc[:, cols]
Project(rows, cols) == [i \in 1..Len(rows) |-> [c \in cols |-> rows[i][c]]]

Query(method, args, outcome) == [client |-> method, args |-> args, outcome |-> outcome]

actor_parts_except_attribute_only(exc, actor_id, part_type) ==
    IF exc = "AttributeError"
    THEN [result |-> None, stdout |-> << <<"ERROR: ", actor_id, " not found">> >>]
    ELSE [result |-> Raise(exc), stdout |-> <<>>]

\* the except clauses of actor_parts
actor_parts_except(exc, actor_id, part_type) ==
    IF exc = "AttributeError"
    THEN [result |-> None, stdout |-> << <<"ERROR: ", actor_id, " not found">> >>]
    ELSE IF exc = "KeyError"
    THEN [result |-> None,
          stdout |-> << <<actor_id, " does not have any ", part_type, " types">> >>]
    ELSE [result |-> Raise(exc), stdout |-> <<>>]

concat_reversed(df_first, df_second) == df_second \o df_first

\* pd.concat([df_first, df_second])
concat(df_first, df_second) == df_first \o df_second

actor_parts(actor_id, part_type, parts_out, search_out) ==
    LET q_parts == Query("parts", <<actor_id, part_type>>, parts_out)
        q_search == Query("search", <<actor_id>>, search_out)
    IN  IF parts_out.kind = "raise"
        THEN [queries |-> <<q_parts>>]
             @@ actor_parts_except(parts_out.exc, actor_id, part_type)
        ELSE IF search_out.kind = "raise"
        THEN [queries |-> <<q_parts, q_search>>]
             @@ actor_parts_except(search_out.exc, actor_id, part_type)
        ELSE LET df_parts == Project(parts_out.rows, {"name", "actor_id"})
                 df_actor == Project(FilterEq(search_out.rows, "actor_id", actor_id),
                                     {"name", "actor_id"})
             IN  [queries |-> <<q_parts, q_search>>,
                  result |-> Table(concat(df_actor, df_parts)),
                  stdout |-> <<>>]

AbsoluteReduction == "Absolute emission reduction"

RECURSIVE SeqMin(_)
SeqMin(s) ==
    IF Len(s) = 1 THEN s[1]
    ELSE LET m == SeqMin(Tail(s)) IN IF s[1] < m THEN s[1] ELSE m

\* Series.min(): NaN for an empty series
SeriesMin(s) ==
    IF s = <<>> THEN [isnan |-> TRUE, v |-> 0] ELSE [isnan |-> FALSE, v |-> SeqMin(s)]

\* series == scalar, elementwise; nothing equals NaN
EqScalar(x, scalar) == ~scalar.isnan /\ x = scalar.v

RECURSIVE drop_duplicates(_)
drop_duplicates(rows) ==
    IF rows = <<>> THEN <<>>
    ELSE LET init == drop_duplicates(SubSeq(rows, 1, Len(rows) - 1))
             last == rows[Len(rows)]
         IN  IF \E i \in 1..Len(init) : init[i] = last THEN init
             ELSE Append(init, last)

closest_target_at_most(part_targets, year) ==
    SeriesMin(SelectSeq(Column(part_targets, "target_year"), LAMBDA y : y <= year))

\* part_targets['target_year'][part_targets['target_year'] == year].min()
closest_target_of(part_targets, year) ==
    SeriesMin(SelectSeq(Column(part_targets, "target_year"), LAMBDA y : y = year))

part_targets_of(targets) ==
    Project(FilterEq(targets, "target_type", AbsoluteReduction),
            {"actor_id", "baseline_year", "target_year", "target_value",
             "target_unit", "datasource_id"})

cols_out == {"actor_id", "baseline_year", "target_year", "target_value", "target_unit"}

target_of(part_targets, closest_target) ==
    drop_duplicates(Project(
        SelectSeq(part_targets, LAMBDA r : EqScalar(r.target_year, closest_target)),
        cols_out))

get_target_pipeline(part_targets, year) ==
    Table(target_of(part_targets, closest_target_of(part_targets, year)))

get_target_none_when_empty(actor_id, year, data_id, targets_out) ==
    IF targets_out.kind = "raise" THEN None
    ELSE IF get_target_pipeline(part_targets_of(targets_out.rows), year).rows = <<>>
    THEN None
    ELSE get_target_pipeline(part_targets_of(targets_out.rows), year)

\* the bare except: an exception of the targets query ends the call with None
get_target(actor_id, year, data_id, targets_out) ==
    IF targets_out.kind = "raise" THEN None
    ELSE get_target_pipeline(part_targets_of(targets_out.rows), year)

get_emissions_catch_all(actor_id, datasource_id, emissions_out) ==
    IF emissions_out.kind = "raise" THEN None ELSE emissions_out

get_emissions(actor_id, datasource_id, emissions_out) ==
    IF emissions_out.kind = "raise"
    THEN (IF emissions_out.exc = "ValueError" THEN None ELSE Raise(emissions_out.exc))
    ELSE emissions_out

----------------------------------------------------------------------------
(* Bounds and the inputs drawn.                                            *)

MaxRows == 2
MaxRecords == 3
MaxParts == 2
MaxHits == 2

Years == {2019, 2020, 2030}
EmissionValues == {1, 100, 200, 12345}
Percents == {0, 1, 27, 33, 43, 50, 75, 100}
ActorIds == {"CA", "US"}

RECURSIVE SeqsUpTo(_, _)
SeqsUpTo(S, n) ==
    IF n = 0 THEN {<<>>}
    ELSE LET shorter == SeqsUpTo(S, n - 1)
         IN  shorter \cup {Append(s, x) : s \in {t \in shorter : Len(t) = n - 1}, x \in S}

EmissionRows == [actor_id : ActorIds, year : {2019, 2020}, total_emissions : {100, 200}]
PlainRows == [year : {2019, 2020}, total_emissions : {100, 200}]

EmissionTables ==
    {[columns |-> {"actor_id", "year", "total_emissions"}, rows |-> rs] :
        rs \in SeqsUpTo(EmissionRows, MaxRows)}
    \cup {[columns |-> {"year", "total_emissions"}, rows |-> rs] :
        rs \in SeqsUpTo(PlainRows, MaxRows)}

LinearCalls ==
    [fn : {"linear_equation"}, baseline_year : Years, baseline_emissions : EmissionValues,
     target_percent : Percents, target_year : Years, numpy : BOOLEAN]

ScaledCalls ==
    [fn : {"scaled_emissions"}, baseline_year : Years, baseline_emissions : EmissionValues,
     target_percent : Percents, target_year : Years, scale_year : Years, numpy : BOOLEAN]

IpccCalls ==
    [fn : {"ipcc_range"}, df : EmissionTables, actor_id : ActorIds \cup {NoActor},
     baseline_year : {2019, 2020}, target_value15 : {43, 50}, target_value20 : {27}]

ActorPartsCalls == [fn : {"actor_parts"}, actor_id : ActorIds, part_type : {"adm1", "adm2"}]

PartRows(part_type) ==
    {[name |-> "Alberta", actor_id |-> "CA-AB", type |-> part_type],
     [name |-> "Ontario", actor_id |-> "CA-ON", type |-> part_type]}

\* search also returns near matches of the query
SearchRows ==
    {[name |-> "Canada", actor_id |-> "CA", type |-> "country"],
     [name |-> "Alberta", actor_id |-> "CA-AB", type |-> "adm1"]}

Outcomes(tables) == {Table(rows) : rows \in tables} \cup {Raise(exc) : exc \in ClientErrors}

DataIds == {"<None>", "C2ES:canadian_GHG_targets"}

GetTargetCalls == [fn : {"get_target"}, actor_id : {"CA"}, year : {2030, 2050}, data_id : DataIds]

TargetRecords(actor_id) ==
    [actor_id : {actor_id},
     target_type : {AbsoluteReduction, "Relative emission reduction"},
     baseline_year : {2005}, target_year : {2029, 2030}, target_value : {40, 45},
     target_unit : {"percent"}, datasource_id : {"D1", "D2"}]

GetEmissionsCalls == [fn : {"get_emissions"}, actor_id : ActorIds, datasource_id : {"D1", "D2"}]

EmissionRecords(actor_id, datasource_id) ==
    [actor_id : {actor_id}, year : {2019, 2020}, total_emissions : {100, 200},
     datasource_id : {datasource_id}]

----------------------------------------------------------------------------
VARIABLES call, result, stdout, queries

vars == <<call, result, stdout, queries>>

Init ==
    /\ \/ call \in LinearCalls
       \/ call \in ScaledCalls
       \/ call \in IpccCalls
       \/ call \in ActorPartsCalls
       \/ call \in GetTargetCalls
       \/ call \in GetEmissionsCalls
    /\ result = Pending
    /\ stdout = <<>>
    /\ queries = <<>>

LinearEquation ==
    /\ call.fn = "linear_equation"
    /\ result = Pending
    /\ result' = linear_equation(call.baseline_year, call.baseline_emissions,
                                 call.target_percent, call.target_year, call.numpy)
    /\ UNCHANGED <<call, stdout, queries>>

ScaledEmissions ==
    /\ call.fn = "scaled_emissions"
    /\ result = Pending
    /\ result' = scaled_emissions(call.baseline_year, call.baseline_emissions,
                                  call.target_percent, call.target_year,
                                  call.scale_year, call.numpy)
    /\ UNCHANGED <<call, stdout, queries>>

IpccRange ==
    /\ call.fn = "ipcc_range"
    /\ result = Pending
    /\ result' = ipcc_range(call.df, call.actor_id, call.baseline_year,
                            call.target_value15, call.target_value20)
    /\ UNCHANGED <<call, stdout, queries>>

ActorParts ==
    /\ call.fn = "actor_parts"
    /\ result = Pending
    /\ \E parts_out \in Outcomes(SeqsUpTo(PartRows(call.part_type), MaxParts)) :
       \E search_out \in Outcomes(SeqsUpTo(SearchRows, MaxHits)) :
          LET r == actor_parts(call.actor_id, call.part_type, parts_out, search_out)
          IN  /\ result' = r.result
              /\ stdout' = r.stdout
              /\ queries' = r.queries
    /\ UNCHANGED call

GetTarget ==
    /\ call.fn = "get_target"
    /\ result = Pending
    /\ \E targets_out \in Outcomes(SeqsUpTo(TargetRecords(call.actor_id), MaxRecords)) :
          /\ result' = get_target(call.actor_id, call.year, call.data_id, targets_out)
          /\ queries' = <<Query("targets", <<call.actor_id>>, targets_out)>>
    /\ UNCHANGED <<call, stdout>>

GetEmissions ==
    /\ call.fn = "get_emissions"
    /\ result = Pending
    /\ \E emissions_out \in
            Outcomes(SeqsUpTo(EmissionRecords(call.actor_id, call.datasource_id), MaxRows)) :
          /\ result' = get_emissions(call.actor_id, call.datasource_id, emissions_out)
          /\ queries' = <<Query("emissions", <<call.actor_id, call.datasource_id>>,
                                emissions_out)>>
    /\ UNCHANGED <<call, stdout>>

Next ==
    \/ LinearEquation
    \/ ScaledEmissions
    \/ IpccRange
    \/ ActorParts
    \/ GetTarget
    \/ GetEmissions

Spec == Init /\ [][Next]_vars

----------------------------------------------------------------------------
(* Properties.                                                             *)

Done == result.kind # "pending"

Abs(n) == IF n < 0 THEN -n ELSE n

LinearOfCall ==
    linear_equation(call.baseline_year, call.baseline_emissions, call.target_percent,
                    call.target_year, call.numpy).value

ZeroDurationCall ==
    call.fn = "linear_equation" /\ call.target_year = call.baseline_year /\ Done

\* C1: linear_equation with target_year == baseline_year signals an error for
\* every baseline_year, baseline_emissions and target_percent, and never
\* returns a result dictionary.
C1_ZeroDurationRaises == ZeroDurationCall => result.kind = "raise"

AtBaselineYear ==
    /\ call.fn = "scaled_emissions"
    /\ call.target_year # call.baseline_year
    /\ call.scale_year = call.baseline_year
    /\ Done

\* C2 as stated: evaluated at the baseline year, scaled_emissions equals
\* baseline_emissions, for all inputs with target_year # baseline_year.
C2_AtBaselineExact ==
    AtBaselineYear =>
        /\ result.kind = "float"
        /\ FEq(result.value, FromInt(call.baseline_emissions))

SpecExampleAtBaseline ==
    /\ call.baseline_year = 2020 /\ call.baseline_emissions = 100
    /\ call.target_percent = 50 /\ call.target_year = 2030

\* C2 amended: evaluated at the baseline year, scaled_emissions is a float within
\* 2^-52 * |intercept| of baseline_emissions (the rounding of the intercept and of
\* the final sum), and exactly baseline_emissions for 2020, 100, 50, 2030.
C2_AtBaselineWithinRounding ==
    AtBaselineYear =>
        /\ result.kind = "float"
        /\ result.value.cls = "fin"
        /\ DLe(DAbs(DSub(result.value, FromInt(call.baseline_emissions))),
               DScale(DAbs(LinearOfCall.intercept), -52))
        /\ SpecExampleAtBaseline => FEq(result.value, FromInt(100))

C2_Witness ==
    /\ AtBaselineYear
    /\ result.kind = "float"
    /\ ~FEq(result.value, FromInt(call.baseline_emissions))

AtTargetYear ==
    /\ call.fn = "scaled_emissions"
    /\ call.target_year # call.baseline_year
    /\ call.scale_year = call.target_year
    /\ Done

\* C3 as stated: evaluated at the target year, scaled_emissions equals the
\* target_emissions that linear_equation returns for the same inputs.
C3_AtTargetExact ==
    AtTargetYear =>
        /\ result.kind = "float"
        /\ FEq(result.value, LinearOfCall.target_emissions)

\* C3 amended: evaluated at the target year, scaled_emissions is a float within
\* 2^-50 * (|slope| * (|target_year| + |baseline_year|) + |baseline_emissions|) of
\* linear_equation's target_emissions, and exactly 50 for 2020, 100, 50, 2030.
C3_AtTargetWithinRounding ==
    AtTargetYear =>
        /\ result.kind = "float"
        /\ result.value.cls = "fin"
        /\ DLe(DAbs(DSub(result.value, LinearOfCall.target_emissions)),
               DScale(DAdd(DMul(DAbs(LinearOfCall.slope),
                                FromInt(Abs(call.target_year) + Abs(call.baseline_year))),
                           FromInt(Abs(call.baseline_emissions))),
                      -50))
        /\ SpecExampleAtBaseline => FEq(result.value, FromInt(50))

C3_Witness ==
    /\ AtTargetYear
    /\ result.kind = "float"
    /\ ~FEq(result.value, LinearOfCall.target_emissions)

\* the rows of df that match the baseline filter
BaselineMatches ==
    {i \in 1..Len(call.df.rows) :
        /\ call.df.rows[i].year = call.baseline_year
        /\ \/ call.actor_id = NoActor
           \/ /\ "actor_id" \in call.df.columns
              /\ call.df.rows[i].actor_id = call.actor_id}

\* C4: ipcc_range signals an error, and returns no dictionary, whenever zero or
\* at least two rows of df match the baseline filter.
C4_AmbiguousOrMissingBaselineRaises ==
    (call.fn = "ipcc_range" /\ Done /\ Cardinality(BaselineMatches) # 1)
        => result.kind = "raise"

C4_Witness ==
    /\ call.fn = "ipcc_range" /\ Done
    /\ call.actor_id = NoActor
    /\ "actor_id" \in call.df.columns
    /\ \E i, j \in BaselineMatches :
          call.df.rows[i].actor_id # call.df.rows[j].actor_id
    /\ result.kind = "raise"

IpccKeys ==
    {"baseline_year", "target_value_1.5C", "target_emissions_1.5C",
     "target_value_2.0C", "target_emissions_2.0C"}

\* E * (1 - target_value/100) in float arithmetic
ReductionOf(E, target_value) ==
    FMul(FromInt(E), FSub(FromInt(1), TrueDiv(FromInt(target_value), FromInt(100))))

IpccEchoesAndComputes ==
    LET E == call.df.rows[CHOOSE i \in BaselineMatches : TRUE].total_emissions
    IN  /\ result.kind = "dict"
        /\ DOMAIN result.value = IpccKeys
        /\ result.value["baseline_year"] = call.baseline_year
        /\ result.value["target_value_1.5C"] = call.target_value15
        /\ result.value["target_value_2.0C"] = call.target_value20
        /\ result.value["target_emissions_1.5C"] = ReductionOf(E, call.target_value15)
        /\ result.value["target_emissions_2.0C"] = ReductionOf(E, call.target_value20)

OneBaselineRow ==
    call.fn = "ipcc_range" /\ Done /\ Cardinality(BaselineMatches) = 1

SpecExampleTable ==
    /\ call.df = [columns |-> {"year", "total_emissions"},
                  rows |-> <<[year |-> 2019, total_emissions |-> 200]>>]
    /\ call.baseline_year = 2019
    /\ call.target_value15 = 43
    /\ call.target_value20 = 27

\* C5 as stated: with exactly one matching row the dictionary has exactly the five
\* keys, echoes the inputs, holds E * (1 - target_value/100), and for the table
\* {year: 2019, total_emissions: 200} with 43 and 27 holds 114 and 146.
C5_DictWithExample114 ==
    OneBaselineRow =>
        /\ IpccEchoesAndComputes
        /\ SpecExampleTable =>
              /\ FEq(result.value["target_emissions_1.5C"], FromInt(114))
              /\ FEq(result.value["target_emissions_2.0C"], FromInt(146))

\* 114.00000000000001, the float next above 114
Float114Up == DAdd(FromInt(114), DScale(FromInt(1), -46))

\* C5 amended: as stated, except that for the table {year: 2019,
\* total_emissions: 200} with 43 and 27 the 1.5C value is the float
\* 114.00000000000001 (114 + 2^-46), not 114; the 2.0C value is 146.
C5_DictWithExampleRounded ==
    OneBaselineRow =>
        /\ IpccEchoesAndComputes
        /\ SpecExampleTable =>
              /\ result.value["target_emissions_1.5C"] = Float114Up
              /\ FEq(result.value["target_emissions_2.0C"], FromInt(146))

C5_Witness == OneBaselineRow /\ SpecExampleTable /\ result.kind = "dict"

LastOutcome == queries[Len(queries)].outcome

ClientRaised ==
    call.fn = "actor_parts" /\ Done /\ LastOutcome.kind = "raise"

\* C6 as stated: whichever error kind the parts or search query raises, the call
\* returns None after printing a message and no exception escapes.
C6_EveryClientErrorIsNotFound ==
    ClientRaised => result = None /\ Len(stdout) = 1

\* C6 amended: when the parts or search query raises the not-found kind
\* (AttributeError) or the no-such-category kind (KeyError), the call returns None
\* after printing one message; the invalid-argument kind (ValueError) escapes the
\* call and nothing is printed.
C6_CaughtKindsAreNotFound ==
    ClientRaised =>
        IF LastOutcome.exc \in {"AttributeError", "KeyError"}
        THEN result = None /\ Len(stdout) = 1
        ELSE result = Raise("ValueError") /\ stdout = <<>>

C6_Witness ==
    /\ ClientRaised
    /\ Len(queries) = 2
    /\ LastOutcome.exc = "KeyError"
    /\ result = None
    /\ stdout = << <<call.actor_id, " does not have any ", call.part_type, " types">> >>

TargetsOutcome == queries[1].outcome

\* the client's records of the wanted type and exactly the requested year
MatchingRecords ==
    {i \in 1..Len(TargetsOutcome.rows) :
        /\ TargetsOutcome.rows[i].target_type = AbsoluteReduction
        /\ TargetsOutcome.rows[i].target_year = call.year}

NoMatchingRecord ==
    TargetsOutcome.kind = "table" /\ MatchingRecords = {}

RecordsButNoMatch == NoMatchingRecord /\ TargetsOutcome.rows # <<>>

\* C7 as stated: get_target returns None when the targets query fails and when no
\* record of the wanted type has the requested target_year, and no exception
\* escapes.
C7_NoneOnEmptyResult ==
    (call.fn = "get_target" /\ Done) =>
        /\ result.kind # "raise"
        /\ TargetsOutcome.kind = "raise" => result = None
        /\ RecordsButNoMatch => result = None

\* C7 amended: get_target returns None when the targets query raises; when the
\* client returns records but none of the wanted type has the requested
\* target_year it returns an empty table, not None; no exception escapes.
C7_EmptyTableOnEmptyResult ==
    (call.fn = "get_target" /\ Done) =>
        /\ result.kind # "raise"
        /\ TargetsOutcome.kind = "raise" => result = None
        /\ NoMatchingRecord => result = Table(<<>>)
        /\ result = None => TargetsOutcome.kind = "raise"

C7_Witness ==
    /\ call.fn = "get_target" /\ Done
    /\ RecordsButNoMatch
    /\ \E i \in 1..Len(TargetsOutcome.rows) :
          TargetsOutcome.rows[i].target_type = AbsoluteReduction
    /\ result = Table(<<>>)

EmissionsOutcome == queries[1].outcome

\* C8: get_emissions returns None exactly when the emissions query raises
\* ValueError; a table is returned unchanged; any other error propagates.
C8_OnlyValueErrorBecomesNone ==
    (call.fn = "get_emissions" /\ Done) =>
        /\ result = None <=>
              (EmissionsOutcome.kind = "raise" /\ EmissionsOutcome.exc = "ValueError")
        /\ EmissionsOutcome.kind = "table" => result = EmissionsOutcome
        /\ (EmissionsOutcome.kind = "raise" /\ EmissionsOutcome.exc # "ValueError")
              => result = Raise(EmissionsOutcome.exc)

C8_Witness ==
    /\ call.fn = "get_emissions" /\ Done
    /\ EmissionsOutcome = Raise("KeyError")
    /\ result = Raise("KeyError")

TargetProjection(r) ==
    [actor_id |-> r.actor_id, baseline_year |-> r.baseline_year,
     target_year |-> r.target_year, target_value |-> r.target_value,
     target_unit |-> r.target_unit]

NameAndId(r) == [name |-> r.name, actor_id |-> r.actor_id]

RECURSIVE OwnRows(_, _)
OwnRows(hits, actor_id) ==
    IF hits = <<>> THEN <<>>
    ELSE IF Head(hits).actor_id = actor_id
         THEN <<NameAndId(Head(hits))>> \o OwnRows(Tail(hits), actor_id)
         ELSE OwnRows(Tail(hits), actor_id)

ChildRows(parts) == [i \in 1..Len(parts) |-> NameAndId(parts[i])]

\* C10: when both queries succeed actor_parts returns the exact-match search rows
\* followed by all parts rows in the client's order, each as {name, actor_id};
\* when parts fails the search query is never issued and no table is returned.
C10_OwnRecordThenChildren ==
    (call.fn = "actor_parts" /\ Done) =>
        /\ queries[1].client = "parts"
        /\ queries[1].outcome.kind = "raise" =>
              Len(queries) = 1 /\ result.kind # "table"
        /\ queries[1].outcome.kind = "table" =>
              Len(queries) = 2 /\ queries[2].client = "search"
        /\ (Len(queries) = 2 /\ queries[2].outcome.kind = "table") =>
              result = Table(OwnRows(queries[2].outcome.rows, call.actor_id)
                             \o ChildRows(queries[1].outcome.rows))

C10_Witness ==
    /\ call.fn = "actor_parts" /\ Done
    /\ result.kind = "table"
    /\ Len(queries[2].outcome.rows) = 2
    /\ queries[2].outcome.rows[1].actor_id # call.actor_id
    /\ queries[2].outcome.rows[2].actor_id = call.actor_id
    /\ Len(queries[1].outcome.rows) = 2
    /\ queries[1].outcome.rows[1] # queries[1].outcome.rows[2]
    /\ Len(result.rows) = 3
    /\ result.rows[1].actor_id = call.actor_id
====
